---- MODULE Spec2Model ----
(***************************************************************************)
(* Model of the trackermap ingestion core: the MQTT message callback       *)
(* on_message (src/src/trackermap/trackermap.py), the SQLite sink          *)
(* insert_tracker_info / init_db (src/src/trackermap/tracker_db.py) and    *)
(* the CSV sink init_csv_writer / csv_writer.writerow; the module-level    *)
(* start-up code (credentials, log file, store file) statement by          *)
(* statement for processes sharing a directory; main() and on_connect      *)
(* with the connection to the broker.                                      *)
(*                                                                         *)
(* Specifications.                                                         *)
(*  - Spec       : one session, messages of every class delivered in turn  *)
(*  - SpecDecode : one message, every measurement list up to MaxEntries    *)
(*  - SpecTime   : one message, epoch values second by second              *)
(*  - SpecBoot   : processes starting, stopping and starting again         *)
(*  - SpecConn   : connect, CONNACK, disconnect, reconnect, delivery       *)
(*                                                                         *)
(* Representation.                                                         *)
(*  - A JSON object (Python dict) is a function whose DOMAIN is the set of *)
(*    keys present; d[k] with k absent is Python's KeyError.  A JSON array *)
(*    is a sequence; s[0] on the empty array is Python's IndexError.       *)
(*  - Coordinates are integers in thousandths of a degree (13405 stands    *)
(*    for 13.405), so that 0 is exactly Python's 0.0.                      *)
(*  - An epoch value in milliseconds is the pair sec, msec with            *)
(*    ms = 1000 * sec + msec, because 1700000000000 does not fit the       *)
(*    32-bit integers of the model checker.                                *)
(*  - A raised Python exception is the string naming its class; "none"     *)
(*    means the code returned normally.                                    *)
(***************************************************************************)
EXTENDS Integers, Sequences, FiniteSets, TLC

VARIABLES
    session,       \* "init" | "started" | "receiving" | "terminated": the process
    db_conn,       \* module global db_conn: "none-yet" | "conn" | "None"
    tracker_data,  \* committed rows of table tracker_data, in rowid order
    db_txn,        \* rows inserted on db_conn whose commit has not succeeded yet
    csv_file,      \* lines of ./tracker_data.csv, header included
    delivered,     \* number of messages the broker has delivered so far
    last,          \* observation of the most recent on_message call
    accepted,      \* the Readings on_message found valid, in delivery order
    faulted,       \* TRUE once a sink has failed on a valid Reading
    proc,          \* start-up: where each ingestion process stands
    starts,        \* start-up: number of process starts so far
    csv_exists,    \* os.path.isfile("./tracker_data.csv")
    db_file,       \* tracker_data.db: whether it exists and the tables in it
    connects,      \* number of client.connect calls made by main()
    link,          \* MQTT session: "idle" | "connecting" | "connected" |
                   \*               "disconnected" | "crashed"
    subscriptions, \* topic filters the broker holds for this session
    published,     \* number of messages the broker has published so far
    processed,     \* publication numbers handed to on_message, in order
    last_connect   \* observation of the most recent on_connect call

\* the ingestion session and its two sinks
coreVars == <<session, db_conn, tracker_data, db_txn, csv_file, delivered, last>>

\* the same without the log file, which start-up writes to
coreVarsButLog == <<session, db_conn, tracker_data, db_txn, delivered, last>>

\* history of the session
histVars == <<accepted, faulted>>

\* the processes starting up and the files they share
bootVars == <<proc, starts, csv_exists, db_file, connects>>

\* the connection to the broker
connVars == <<link, subscriptions, published, processed, last_connect>>

vars == <<coreVars, histVars, bootVars, connVars>>

----------------------------------------------------------------------------
(* Bounds of the model *)

\* messages delivered in one run of the session specification
MaxMsgs == 2

\* length of the measurement list in the decoder specification
MaxEntries == 3

----------------------------------------------------------------------------
(* Python dictionaries *)

HasKey(d, k) == k \in DOMAIN d

Without(d, k) == [x \in DOMAIN d \ {k} |-> d[x]]

EmptyDict == [x \in {} |-> x]

----------------------------------------------------------------------------
(* Timestamp conversion: datetime.fromtimestamp(ms/1000, Europe/Berlin)    *)
(* followed by strftime('%Y-%m-%d %H:%M').  Civil-calendar arithmetic on   *)
(* days since 1970-01-01; the zone rule is the EU rule in force since 1996 *)
(* (CEST from the last Sunday of March 01:00 UTC to the last Sunday of     *)
(* October 01:00 UTC, CET otherwise).                                      *)

\* Each step takes the values computed so far as parameters.

\* days since 1970-01-01 of the civil date y-m-d
DaysFromYoe(era, yoe, doy) ==
    era * 146097 + yoe * 365 + yoe \div 4 - yoe \div 100 + doy - 719468

DaysFromShifted(yy, mp, d) ==
    DaysFromYoe(yy \div 400, yy % 400, (153 * mp + 2) \div 5 + d - 1)

DaysFromCivil(y, m, d) ==
    DaysFromShifted(IF m <= 2 THEN y - 1 ELSE y, (m + 9) % 12, d)

\* civil date of day number z0 (days since 1970-01-01)
CivilDate(y0, m, d) ==
    [year |-> IF m <= 2 THEN y0 + 1 ELSE y0, month |-> m, day |-> d]

CivilFromMp(y0, doy, mp) ==
    CivilDate(y0, IF mp < 10 THEN mp + 3 ELSE mp - 9, doy - (153 * mp + 2) \div 5 + 1)

CivilFromDoy(y0, doy) == CivilFromMp(y0, doy, (5 * doy + 2) \div 153)

CivilFromYoe(era, doe, yoe) ==
    CivilFromDoy(yoe + era * 400, doe - (365 * yoe + yoe \div 4 - yoe \div 100))

CivilFromDoe(era, doe) ==
    CivilFromYoe(era, doe,
                 (doe - doe \div 1460 + doe \div 36524 - doe \div 146096) \div 365)

CivilFromShifted(z) == CivilFromDoe(z \div 146097, z % 146097)

CivilFromDays(z0) == CivilFromShifted(z0 + 719468)

\* the Sunday on or before day number n; 1970-01-01 (day 0) was a Thursday,
\* so day n is a Sunday iff (n + 4) % 7 = 0
SundayOnOrBefore(n) == n - ((n + 4) % 7)

\* day number of the last Sunday of month m (31 days long) of year y
LastSunday(y, m) == SundayOnOrBefore(DaysFromCivil(y, m, 31))

\* summer time holds from the last Sunday of March 01:00 UTC to the last
\* Sunday of October 01:00 UTC of year y
IsSummerTime(sec, y) ==
    /\ LastSunday(y, 3) * 86400 + 3600 <= sec
    /\ sec < LastSunday(y, 10) * 86400 + 3600

\* UTC offset of Europe/Berlin, in seconds, at epoch second sec
BerlinOffset(sec) ==
    IF IsSummerTime(sec, CivilFromDays(sec \div 86400).year) THEN 7200 ELSE 3600

Pad2(n) == IF n < 10 THEN "0" \o ToString(n) ELSE ToString(n)

\* strftime('%Y-%m-%d %H:%M') of a civil date and a second of the day
Strftime(date, sod) ==
    ToString(date.year) \o "-" \o Pad2(date.month) \o "-" \o Pad2(date.day)
    \o " " \o Pad2(sod \div 3600) \o ":" \o Pad2((sod % 3600) \div 60)

\* FormatLocal rounding to the nearest minute
FormatLocalRounded(local) ==
    Strftime(CivilFromDays((local + 30) \div 86400), (local + 30) % 86400)

FormatLocal(local) == Strftime(CivilFromDays(local \div 86400), local % 86400)

\* ts = [sec, msec]: the fractional second never reaches the minute field;
\* strftime('%Y-%m-%d %H:%M') drops seconds and below
FormatTimestamp(ts) == FormatLocal(ts.sec + BerlinOffset(ts.sec))

----------------------------------------------------------------------------
(* The Reading built by on_message (the dict tracker_info) *)

\* key order of the module-level tracker_info, which is the DictWriter's
\* fieldnames and therefore the column order of the log file
Fieldnames ==
    <<"tracker_id", "latitude", "longitude", "battery", "timestamp",
      "gw-rssi", "gw-name", "gw-latitude", "gw-longitude">>

\* tracker_info kept from one call to the next instead of built anew
CarriedTrackerInfo == last.info

InitialTrackerInfo ==
    ("tracker_id" :> "") @@ ("latitude" :> 0) @@ ("longitude" :> 0) @@
    ("battery" :> 0) @@ ("timestamp" :> "") @@ ("gw-rssi" :> -70) @@
    ("gw-name" :> "") @@ ("gw-latitude" :> 0) @@ ("gw-longitude" :> 0)

SetItem(d, k, v) == [d EXCEPT ![k] = v]

Ok(info)  == [exc |-> "none", info |-> info]
Raise(e, info) == [exc |-> e, info |-> info]

----------------------------------------------------------------------------
(* on_message, step by step *)

\* json.loads(msg.payload): a payload is [kind |-> "json", doc |-> d] when
\* its bytes parse to the JSON object d, [kind |-> "malformed", ...] when
\* json.loads raises JSONDecodeError
JsonLoads(payload) ==
    IF payload.kind = "json"
    THEN [exc |-> "none", data |-> payload.doc]
    ELSE [exc |-> "JSONDecodeError", data |-> EmptyDict]

\* dev = data["end_device_ids"]["device_id"]
DeviceId(data) ==
    IF HasKey(data, "end_device_ids") /\ HasKey(data["end_device_ids"], "device_id")
    THEN [exc |-> "none", dev |-> data["end_device_ids"]["device_id"]]
    ELSE [exc |-> "KeyError", dev |-> ""]

\* payl = data["uplink_message"]["decoded_payload"]["messages"][0]
\* rx_metadata = data["uplink_message"]["rx_metadata"][0]
Envelope(data) ==
    LET none == [exc |-> "none", payl |-> <<>>, rx_metadata |-> EmptyDict]
    IN  IF ~HasKey(data, "uplink_message")
        THEN [none EXCEPT !.exc = "KeyError"]
        ELSE LET um == data["uplink_message"]
             IN  IF ~HasKey(um, "decoded_payload")
                 THEN [none EXCEPT !.exc = "KeyError"]
                 ELSE IF ~HasKey(um["decoded_payload"], "messages")
                 THEN [none EXCEPT !.exc = "KeyError"]
                 ELSE IF um["decoded_payload"]["messages"] = <<>>
                 THEN [none EXCEPT !.exc = "IndexError"]
                 ELSE IF ~HasKey(um, "rx_metadata")
                 THEN [none EXCEPT !.exc = "KeyError"]
                 ELSE IF um["rx_metadata"] = <<>>
                 THEN [none EXCEPT !.exc = "IndexError"]
                 ELSE [exc |-> "none",
                       payl |-> Head(um["decoded_payload"]["messages"]),
                       rx_metadata |-> Head(um["rx_metadata"])]

\* tracker_info["tracker_id"] = dev and the four gateway assignments, in
\* source order; the first missing key raises KeyError
Gateway(info, dev, rx) ==
    LET i0 == SetItem(info, "tracker_id", dev)
    IN  IF ~(HasKey(rx, "gateway_ids") /\ HasKey(rx["gateway_ids"], "gateway_id"))
        THEN Raise("KeyError", i0)
        ELSE LET i1 == SetItem(i0, "gw-name", rx["gateway_ids"]["gateway_id"])
             IN  IF ~HasKey(rx, "rssi")
                 THEN Raise("KeyError", i1)
                 ELSE LET i2 == SetItem(i1, "gw-rssi", rx["rssi"])
                      IN  IF ~(HasKey(rx, "location") /\ HasKey(rx["location"], "latitude"))
                          THEN Raise("KeyError", i2)
                          ELSE LET i3 == SetItem(i2, "gw-latitude", rx["location"]["latitude"])
                               IN  IF ~HasKey(rx["location"], "longitude")
                                   THEN Raise("KeyError", i3)
                                   ELSE Ok(SetItem(i3, "gw-longitude",
                                                   rx["location"]["longitude"]))

\* If4197 reading the timestamp with .get: an entry without the key keeps
\* the timestamp as it is
If4197TimestampOptional(m, info) ==
    IF ~HasKey(m, "measurementId") THEN Raise("KeyError", info)
    ELSE IF m["measurementId"] # "4197" THEN Ok(info)
    ELSE IF ~HasKey(m, "measurementValue") THEN Raise("KeyError", info)
    ELSE LET i1 == SetItem(info, "longitude", m["measurementValue"])
         IN  IF ~HasKey(m, "timestamp") THEN Ok(i1)
             ELSE IF ~m["timestamp"].num THEN Raise("ValueError", i1)
             ELSE Ok(SetItem(i1, "timestamp", FormatTimestamp(m["timestamp"])))

\* if measurement["measurementId"] == "4197": longitude, then the timestamp;
\* int() of a non-numeric timestamp raises ValueError
If4197(m, info) ==
    IF ~HasKey(m, "measurementId") THEN Raise("KeyError", info)
    ELSE IF m["measurementId"] # "4197" THEN Ok(info)
    ELSE IF ~HasKey(m, "measurementValue") THEN Raise("KeyError", info)
    ELSE LET i1 == SetItem(info, "longitude", m["measurementValue"])
         IN  IF ~HasKey(m, "timestamp") THEN Raise("KeyError", i1)
             ELSE IF ~m["timestamp"].num THEN Raise("ValueError", i1)
             ELSE Ok(SetItem(i1, "timestamp", FormatTimestamp(m["timestamp"])))

\* If4198 with the target key mistaken: the 4198 value lands in longitude
If4198Swapped(m, info) ==
    IF ~HasKey(m, "measurementId") THEN Raise("KeyError", info)
    ELSE IF m["measurementId"] # "4198" THEN Ok(info)
    ELSE IF ~HasKey(m, "measurementValue") THEN Raise("KeyError", info)
    ELSE Ok(SetItem(info, "longitude", m["measurementValue"]))

\* if measurement["measurementId"] == "4198": latitude
If4198(m, info) ==
    IF ~HasKey(m, "measurementId") THEN Raise("KeyError", info)
    ELSE IF m["measurementId"] # "4198" THEN Ok(info)
    ELSE IF ~HasKey(m, "measurementValue") THEN Raise("KeyError", info)
    ELSE Ok(SetItem(info, "latitude", m["measurementValue"]))

\* If3000 written as a final else: every code that is not 4197 or 4198 is
\* taken for the battery
If3000AsElse(m, info) ==
    IF ~HasKey(m, "measurementId") THEN Raise("KeyError", info)
    ELSE IF m["measurementId"] \in {"4197", "4198"} THEN Ok(info)
    ELSE IF ~HasKey(m, "measurementValue") THEN Raise("KeyError", info)
    ELSE Ok(SetItem(info, "battery", m["measurementValue"]))

\* if measurement["measurementId"] == "3000": battery
If3000(m, info) ==
    IF ~HasKey(m, "measurementId") THEN Raise("KeyError", info)
    ELSE IF m["measurementId"] # "3000" THEN Ok(info)
    ELSE IF ~HasKey(m, "measurementValue") THEN Raise("KeyError", info)
    ELSE Ok(SetItem(info, "battery", m["measurementValue"]))

\* one iteration of "for measurement in payl": the three ifs in sequence;
\* a is the outcome of the first if, b of the second
Then3000(m, b) == IF b.exc # "none" THEN b ELSE If3000(m, b.info)

Then4198(m, a) == IF a.exc # "none" THEN a ELSE Then3000(m, If4198(m, a.info))

Measurement(m, info) == Then4198(m, If4197(m, info))

\* for measurement in payl: ... from entry i on; r is the outcome of entry i
RECURSIVE Traverse(_, _, _)
\* NextMeasurement with the KeyError handled inside the loop: the entry is
\* skipped and the Reading collected so far is kept
NextMeasurementSkipping(payl, i, r) ==
    IF r.exc = "KeyError" THEN Ok(r.info)
    ELSE IF r.exc # "none" THEN r
    ELSE Traverse(payl, i + 1, r.info)

NextMeasurement(payl, i, r) ==
    IF r.exc # "none" THEN r ELSE Traverse(payl, i + 1, r.info)

Traverse(payl, i, info) ==
    IF i > Len(payl) THEN Ok(info)
    ELSE NextMeasurement(payl, i, Measurement(payl[i], info))

\* IsValid with "or" for "and": one non-zero coordinate is enough
IsValidEither(info) == info["latitude"] # 0 \/ info["longitude"] # 0

\* the validity test guarding both sink calls
IsValid(info) == info["latitude"] # 0 /\ info["longitude"] # 0

----------------------------------------------------------------------------
(* Reading Store: tracker_db.py *)

\* init_db: returns the connection, or None when sqlite3.Error is raised
init_db(sqlite_error) == IF sqlite_error THEN "None" ELSE "conn"

\* column list of the INSERT statement
InsertColumns ==
    <<"tracker_id", "latitude", "longitude", "battery", "timestamp",
      "gw_rssi", "gw_name", "gw_latitude", "gw_longitude">>

\* InsertValues with latitude and longitude in the order of the CREATE TABLE
\* columns instead of the order of the INSERT column list
InsertValuesSwapped(data) ==
    <<data["tracker_id"], data["longitude"], data["latitude"], data["battery"],
      data["timestamp"], data["gw-rssi"], data["gw-name"], data["gw-latitude"],
      data["gw-longitude"]>>

\* parameter tuple of the INSERT statement
InsertValues(data) ==
    <<data["tracker_id"], data["latitude"], data["longitude"], data["battery"],
      data["timestamp"], data["gw-rssi"], data["gw-name"], data["gw-latitude"],
      data["gw-longitude"]>>

\* the row the INSERT adds: the i-th parameter goes to the i-th listed column
Row(data) ==
    [c \in {InsertColumns[i] : i \in 1..Len(InsertColumns)} |->
        InsertValues(data)[CHOOSE i \in 1..Len(InsertColumns) : InsertColumns[i] = c]]

\* what SQLite can do to one execute + commit pair
SqOutcomes == {"ok", "execute_error", "commit_error_open", "commit_error_rolled_back"}

\* insert_tracker_info(conn, data) on a store whose committed rows are
\* committed and whose connection holds the uncommitted rows txn.
\*   conn None   : conn.cursor() raises AttributeError, which is not a
\*                 sqlite3.Error and leaves the function
\*   sq          : "execute_error" - cursor.execute raises sqlite3.Error;
\*                 "commit_error_open" - conn.commit raises and SQLite keeps
\*                 the transaction open (SQLITE_BUSY);
\*                 "commit_error_rolled_back" - conn.commit raises and SQLite
\*                 has rolled the transaction back (I/O error, disk full).
\*                 The function calls neither rollback nor a second commit.
insert_tracker_info(conn, data, committed, txn, sq) ==
    IF conn = "None"
    THEN [exc |-> "AttributeError", printed |-> FALSE,
          tracker_data |-> committed, db_txn |-> txn]
    ELSE IF sq = "execute_error"
    THEN [exc |-> "none", printed |-> TRUE,
          tracker_data |-> committed, db_txn |-> txn]
    ELSE IF sq = "commit_error_open"
    THEN [exc |-> "none", printed |-> TRUE,
          tracker_data |-> committed, db_txn |-> Append(txn, Row(data))]
    ELSE IF sq = "commit_error_rolled_back"
    THEN [exc |-> "none", printed |-> TRUE,
          tracker_data |-> committed, db_txn |-> <<>>]
    ELSE [exc |-> "none", printed |-> FALSE,
          tracker_data |-> committed \o Append(txn, Row(data)), db_txn |-> <<>>]

----------------------------------------------------------------------------
(* Durable log: csv.DictWriter over ./tracker_data.csv *)

TextFields == {"tracker_id", "timestamp", "gw-name"}

\* str() of a field value as the csv writer emits it
CsvField(k, v) == IF k \in TextFields THEN v ELSE ToString(v)

\* the line DictWriter.writerow(rowdict) writes: the values in fieldnames order
CsvLine(rowdict) ==
    [i \in 1..Len(Fieldnames) |-> CsvField(Fieldnames[i], rowdict[Fieldnames[i]])]

\* DictWriter.writeheader()
CsvHeader == Fieldnames

\* what the file system can do to one line-buffered write
IoOutcomes == {"ok", "OSError"}

\* writerow on a file opened with mode 'w' for each row: the header stays,
\* the earlier lines are gone
writerow_truncating(file, rowdict, io) ==
    IF io = "OSError"
    THEN [exc |-> "OSError", csv_file |-> file]
    ELSE [exc |-> "none", csv_file |-> <<file[1], CsvLine(rowdict)>>]

\* writerow inside a try that swallows the OSError
writerow_swallowing(file, rowdict, io) ==
    IF io = "OSError"
    THEN [exc |-> "none", csv_file |-> file]
    ELSE [exc |-> "none", csv_file |-> Append(file, CsvLine(rowdict))]

\* csv_writer.writerow(tracker_info)
writerow(file, rowdict, io) ==
    IF io = "OSError"
    THEN [exc |-> "OSError", csv_file |-> file]
    ELSE [exc |-> "none", csv_file |-> Append(file, CsvLine(rowdict))]

\* init_csv_writer: the header is written when the file did not exist
init_csv_writer(file_exists, file) ==
    IF file_exists THEN file ELSE Append(file, CsvHeader)

----------------------------------------------------------------------------
(* on_message as a whole.  Each operator takes the outcome of the step     *)
(* before it as a parameter and continues from there.                      *)

\* the for loop has ended (t): end of the decoding part of the try body
AfterTraverse(t) ==
    [exc |-> t.exc, info |-> t.info,
     trace |-> <<"envelope", "gateway", "measurements">>]

\* the gateway assignments have run (g); then the for loop over payl
AfterGateway(payl, g) ==
    IF g.exc # "none"
    THEN [exc |-> g.exc, info |-> g.info, trace |-> <<"envelope", "gateway">>]
    ELSE AfterTraverse(Traverse(payl, 1, g.info))

\* payl and rx_metadata have been read (env); LOG.debug then reads dev: when
\* DeviceId raised (d), the local dev is unbound and reading it raises
\* UnboundLocalError
AfterEnvelope(d, env) ==
    IF env.exc # "none"
    THEN [exc |-> env.exc, info |-> InitialTrackerInfo, trace |-> <<"envelope">>]
    ELSE IF d.exc # "none"
    THEN [exc |-> "UnboundLocalError", info |-> InitialTrackerInfo,
          trace |-> <<"envelope">>]
    ELSE AfterGateway(env.payl, Gateway(InitialTrackerInfo, d.dev, env.rx_metadata))

\* the try body up to the end of the for loop: envelope, LOG.debug, gateway
\* fields, measurement traversal
Decode(data, d) == AfterEnvelope(d, Envelope(data))

\* csv_writer.writerow has run (w) after the insert (ins)
AfterWriterow(ins, w) ==
    [exc |-> w.exc, trace |-> <<"validity", "insert", "writerow">>,
     LOG |-> IF ins.printed THEN <<"SQLite error during insert">> ELSE <<>>,
     st |-> [tracker_data |-> ins.tracker_data, db_txn |-> ins.db_txn,
             csv_file |-> w.csv_file]]

\* insert_tracker_info has run (ins); writerow follows unless it raised
AfterInsert(info, file, ins, io) ==
    IF ins.exc # "none"
    THEN [exc |-> ins.exc, trace |-> <<"validity", "insert">>, LOG |-> <<>>,
          st |-> [tracker_data |-> ins.tracker_data, db_txn |-> ins.db_txn,
                  csv_file |-> file]]
    ELSE AfterWriterow(ins, writerow(file, info, io))

\* if latitude != 0.0 and longitude != 0.0: insert_tracker_info, then writerow.
\* st = [tracker_data, db_txn, csv_file] is the state of the two sinks.
Persist(info, conn, st, sq, io) ==
    IF ~IsValid(info)
    THEN [exc |-> "none", trace |-> <<"validity">>, LOG |-> <<>>, st |-> st]
    ELSE AfterInsert(info, st.csv_file,
                     insert_tracker_info(conn, info, st.tracker_data, st.db_txn, sq),
                     io)

\* except (KeyError) around the third try: the handler formats dev into its
\* message, so it raises UnboundLocalError when dev was never bound
KeyErrorHandler(d) ==
    IF d.exc = "none"
    THEN [exc |-> "none", LOG |-> <<"Error in message processing: device">>]
    ELSE [exc |-> "UnboundLocalError", LOG |-> <<>>]

\* what the except (KeyError) handler of the second try logged
DeviceIdLog(d) ==
    IF d.exc = "none" THEN <<>> ELSE <<"Error in message processing: device id">>

\* the outcome of on_message once the sinks have been called (p)
AfterPersist(d, dec, p) ==
    [raised |-> p.exc, trace |-> <<"json_loads", "device_id">> \o dec.trace \o p.trace,
     LOG |-> DeviceIdLog(d) \o p.LOG, info |-> dec.info, st |-> p.st]

\* the outcome of on_message when decoding raised KeyError and the handler
\* ran (h)
AfterHandler(d, dec, h, st) ==
    [raised |-> h.exc, trace |-> <<"json_loads", "device_id">> \o dec.trace,
     LOG |-> DeviceIdLog(d) \o h.LOG, info |-> dec.info, st |-> st]

\* decoding has run (dec): KeyError goes to the handler, any other exception
\* leaves the callback, success goes on to the validity test and the sinks
AfterDecode(d, dec, conn, st, sq, io) ==
    IF dec.exc = "KeyError"
    THEN AfterHandler(d, dec, KeyErrorHandler(d), st)
    ELSE IF dec.exc # "none"
    THEN [raised |-> dec.exc, trace |-> <<"json_loads", "device_id">> \o dec.trace,
          LOG |-> DeviceIdLog(d), info |-> dec.info, st |-> st]
    ELSE AfterPersist(d, dec, Persist(dec.info, conn, st, sq, io))

\* the second try has run (d); then the third try
AfterDeviceId(data, d, conn, st, sq, io) ==
    AfterDecode(d, Decode(data, d), conn, st, sq, io)

\* json.loads has run (j).  JSONDecodeError is caught and logged; the next
\* statement then reads the local data, which was never bound, and the
\* UnboundLocalError is not a KeyError
AfterJsonLoads(j, conn, st, sq, io) ==
    IF j.exc # "none"
    THEN [raised |-> "UnboundLocalError", trace |-> <<"json_loads", "device_id">>,
          LOG |-> <<"Json Decoding error">>, info |-> InitialTrackerInfo, st |-> st]
    ELSE AfterDeviceId(j.data, DeviceId(j.data), conn, st, sq, io)

\* on_message(cl, userdata, msg): the outcome of one call.
\*   raised : the exception that leaves the callback, "none" on normal return
\*   trace  : the steps the call entered, in order
\*   st     : the two sinks after the call
on_message(payload, conn, st, sq, io) ==
    AfterJsonLoads(JsonLoads(payload), conn, st, sq, io)

----------------------------------------------------------------------------
(* Module-level start-up code: credentials, the log file, the store file   *)

\* os.getenv(name, default)
getenv(environ, name, default) ==
    IF HasKey(environ, name) THEN environ[name] ELSE default

\* load_credentials reading all four variables with os.environ[name]
load_credentials_all_required(environ) ==
    IF \E name \in {"TTN_APP_ID", "TTN_TENANT", "TTN_REGION", "TTN_API_KEY"} :
           ~HasKey(environ, name)
    THEN [exc |-> "RuntimeError", tenant |-> "", MQTT_HOST |-> "", USERNAME |-> ""]
    ELSE [exc |-> "none", tenant |-> environ["TTN_TENANT"],
          MQTT_HOST |-> environ["TTN_REGION"] \o ".cloud.thethings.network",
          USERNAME |-> environ["TTN_APP_ID"]]

\* the try block reading the four variables and the constants built from
\* them: os.environ[name] raises KeyError for an absent name, which the
\* except clause turns into RuntimeError
load_credentials(environ) ==
    IF ~HasKey(environ, "TTN_APP_ID") \/ ~HasKey(environ, "TTN_API_KEY")
    THEN [exc |-> "RuntimeError", tenant |-> "", MQTT_HOST |-> "", USERNAME |-> ""]
    ELSE [exc |-> "none",
          tenant |-> getenv(environ, "TTN_TENANT", "ttn"),
          MQTT_HOST |-> getenv(environ, "TTN_REGION", "eu1") \o ".cloud.thethings.network",
          USERNAME |-> environ["TTN_APP_ID"]]

\* the module-level dictionary whose keys become the csv fieldnames
ModuleTrackerInfo ==
    ("tracker_id" :> "") @@ ("latitude" :> 0) @@ ("longitude" :> 0) @@
    ("battery" :> 0) @@ ("timestamp" :> "") @@ ("gw-rssi" :> -1) @@
    ("gw-name" :> "") @@ ("gw-latitude" :> 0) @@ ("gw-longitude" :> 0)

\* tracker_data.db as the file system holds it
NoDbFile == [exists |-> FALSE, tables |-> {}]

Schema == {"tracker_data", "tracker_config"}

\* sqlite3.connect(db_path): creates the file, empty, when it is absent
sqlite_connect(file, sqlite_error) ==
    IF sqlite_error
    THEN [exc |-> "sqlite3.Error", db_file |-> file]
    ELSE [exc |-> "none", db_file |-> [file EXCEPT !.exists = TRUE]]

\* cursor.execute("CREATE TABLE name ...") followed by conn.commit(): the
\* statement has no IF NOT EXISTS, so an existing table is an error
create_table(file, name, sqlite_error) ==
    IF sqlite_error \/ name \in file.tables
    THEN [exc |-> "sqlite3.Error", db_file |-> file]
    ELSE [exc |-> "none", db_file |-> [file EXCEPT !.tables = @ \cup {name}]]

----------------------------------------------------------------------------
(* Connection callbacks *)

TOPIC == "v3/+/devices/+/up"

\* on_connect calling cl.subscribe before looking at rc
on_connect_subscribing_first(rc) ==
    IF rc = 0
    THEN [raised |-> "none", subscribe |-> <<TOPIC>>,
          LOG |-> <<[level |-> "info", msg |-> "Connected RC = %s", rc |-> rc],
                    [level |-> "info", msg |-> "Subscribed: %s", topic |-> TOPIC]>>]
    ELSE [raised |-> "none", subscribe |-> <<TOPIC>>,
          LOG |-> <<[level |-> "error", msg |-> "Connection failed: %s", rc |-> rc]>>]

\* on_connect without the call of cl.subscribe
on_connect_without_subscribe(rc) ==
    IF rc = 0
    THEN [raised |-> "none", subscribe |-> <<>>,
          LOG |-> <<[level |-> "info", msg |-> "Connected RC = %s", rc |-> rc]>>]
    ELSE [raised |-> "none", subscribe |-> <<>>,
          LOG |-> <<[level |-> "error", msg |-> "Connection failed: %s", rc |-> rc]>>]

\* on_connect(cl, userdata, flags, rc, _): subscribe lists the topic filters
\* passed to cl.subscribe during the call
on_connect(rc) ==
    IF rc = 0
    THEN [raised |-> "none", subscribe |-> <<TOPIC>>,
          LOG |-> <<[level |-> "info", msg |-> "Connected RC = %s", rc |-> rc],
                    [level |-> "info", msg |-> "Subscribed: %s", topic |-> TOPIC]>>]
    ELSE [raised |-> "none", subscribe |-> <<>>,
          LOG |-> <<[level |-> "error", msg |-> "Connection failed: %s", rc |-> rc]>>]

\* CONNACK results as the client hands them to on_connect: 0 accepted,
\* 134 bad user name or password, 136 server unavailable
ConnackCodes == {0, 134, 136}

\* what client.connect / reconnect can do: return, or raise an OSError
\* (name resolution, refused or timed-out TCP connection, TLS handshake)
ConnectOutcomes == {"ok", "OSError"}

----------------------------------------------------------------------------
(* Messages the broker can deliver *)

Ts(sec, msec) == [num |-> TRUE, sec |-> sec, msec |-> msec]

\* a timestamp that int() rejects, e.g. the JSON string "abc"
BadTs == [num |-> FALSE, sec |-> 0, msec |-> 0]

Entry(id, v, ts) == [measurementId |-> id, measurementValue |-> v, timestamp |-> ts]

T0 == Ts(1700000000, 0)

E4197 == Entry("4197", 13405, T0)
E4198 == Entry("4198", 52520, T0)
E3000 == Entry("3000", 87, T0)
EOther == Entry("3576", 5, T0)

\* measurement entries of the decoder specification
EntryPool ==
    { E4197, E4198, E3000, EOther,
      Entry("4197", 9000, Ts(1720000030, 500)),
      Entry("4197", 0, T0),
      Entry("4198", 0, T0),
      Entry("4197", 13405, BadTs),
      Without(E4197, "timestamp"),
      Without(E4198, "measurementValue"),
      Without(EOther, "measurementValue"),
      Without(E3000, "measurementId") }

GoodMeta ==
    [gateway_ids |-> [gateway_id |-> "gw-1"], rssi |-> -97,
     location |-> [latitude |-> 48100, longitude |-> 11500]]

GoodPayl == <<E4197, E4198, E3000>>

Doc(dev, payl, meta) ==
    [end_device_ids |-> [device_id |-> dev],
     uplink_message |-> [decoded_payload |-> [messages |-> <<payl>>],
                         rx_metadata |-> <<meta>>]]

Json(doc) == [kind |-> "json", doc |-> doc]

Malformed == [kind |-> "malformed", doc |-> EmptyDict]

GoodDoc == Doc("dev-1", GoodPayl, GoodMeta)

SeqsUpTo(S, n) == UNION {[1..k -> S] : k \in 0..n}

\* decoder specification: a good envelope around every measurement list of
\* at most MaxEntries entries
DecodeMsgs == {Json(Doc("dev-1", p, GoodMeta)) : p \in SeqsUpTo(EntryPool, MaxEntries)}

\* envelopes with one part missing or empty, around the good measurement list
BrokenEnvelopes ==
    { Without(GoodDoc, "end_device_ids"),
      [GoodDoc EXCEPT !["end_device_ids"] = EmptyDict],
      Without(Without(GoodDoc, "end_device_ids"), "uplink_message"),
      Without(GoodDoc, "uplink_message"),
      [GoodDoc EXCEPT !["uplink_message"] = Without(@, "decoded_payload")],
      [GoodDoc EXCEPT !["uplink_message"]["decoded_payload"] = EmptyDict],
      [GoodDoc EXCEPT !["uplink_message"]["decoded_payload"]["messages"] = <<>>],
      [GoodDoc EXCEPT !["uplink_message"] = Without(@, "rx_metadata")],
      [GoodDoc EXCEPT !["uplink_message"]["rx_metadata"] = <<>>] }

\* gateway metadata with one sub-field missing
BrokenMetas ==
    { Without(GoodMeta, "gateway_ids"),
      [GoodMeta EXCEPT !["gateway_ids"] = EmptyDict],
      Without(GoodMeta, "rssi"),
      Without(GoodMeta, "location"),
      [GoodMeta EXCEPT !["location"] = Without(@, "latitude")],
      [GoodMeta EXCEPT !["location"] = Without(@, "longitude")] }

\* measurement lists of the session specification
SessionPayls ==
    { GoodPayl,
      <<E3000, E4198, E4197>>,
      <<E4197, E4198, E3000, EOther>>,
      <<EOther>>,
      <<>>,
      <<E4197>>,
      <<E4198>>,
      <<Entry("4197", 0, T0), Entry("4198", 0, T0), E3000>>,
      <<E4197, Entry("4198", 0, T0)>>,
      <<Entry("4197", 9000, Ts(1720000030, 500)), Entry("4198", 47000, T0)>>,
      <<E4197, E4198, Without(E3000, "measurementValue")>>,
      <<E4197, E4198, Without(E3000, "measurementId")>>,
      <<E4198, Without(E4197, "timestamp")>>,
      <<E4198, Entry("4197", 13405, BadTs)>> }

\* session specification: every class of message, few of each
SessionMsgs ==
    {Malformed}
    \cup {Json(d) : d \in BrokenEnvelopes}
    \cup {Json(Doc("dev-1", GoodPayl, m)) : m \in BrokenMetas}
    \cup {Json(Doc("dev-1", p, GoodMeta)) : p \in SessionPayls}
    \cup {Json(Doc("", GoodPayl, GoodMeta)), Json(Doc("dev-2", <<EOther, E4198>>, GoodMeta))}

----------------------------------------------------------------------------
(* State machine *)

\* before the first call the only tracker_info there is is the module-level one
NoCall ==
    [called |-> FALSE, payload |-> Malformed, raised |-> "none", trace |-> <<>>,
     LOG |-> <<>>, info |-> ModuleTrackerInfo, sq |-> "ok", io |-> "ok"]

\* n counts the calls of on_connect
NoConnect ==
    [n |-> 0, rc |-> 0, raised |-> "none", subscribe |-> <<>>, LOG |-> <<>>]

\* the ingestion processes that can be started against the same directory
Procs == {"p1", "p2"}

NotStarted ==
    [pc |-> "off", environ |-> EmptyDict, tenant |-> "", MQTT_HOST |-> "",
     file_exists |-> FALSE, db_exists |-> FALSE, db_conn |-> "unset"]

Init ==
    /\ session = "init"
    /\ db_conn = "unset"
    /\ tracker_data = <<>>
    /\ db_txn = <<>>
    /\ csv_file = <<>>
    /\ delivered = 0
    /\ last = NoCall
    /\ accepted = <<>>
    /\ faulted = FALSE
    /\ proc = [p \in Procs |-> NotStarted]
    /\ starts = 0
    /\ csv_exists = FALSE
    /\ db_file = NoDbFile
    /\ connects = 0
    /\ link = "idle"
    /\ subscriptions = {}
    /\ published = 0
    /\ processed = <<>>
    /\ last_connect = NoConnect

\* the module-level code of one process on a fresh directory, credentials
\* present: init_csv_writer creates the log file, init_db the store file
ModuleStart ==
    /\ session = "init"
    /\ \E sqlite_error \in BOOLEAN :
           /\ db_conn' = init_db(sqlite_error)
           /\ db_file' = IF sqlite_error THEN db_file
                         ELSE [exists |-> TRUE, tables |-> Schema]
    /\ csv_file' = init_csv_writer(csv_exists, csv_file)
    /\ csv_exists' = TRUE
    /\ UNCHANGED <<tracker_data, db_txn, delivered, last>>
    /\ UNCHANGED <<histVars, proc, starts, connects>>

\* module start, then main() connects, the broker accepts, on_connect
\* subscribes and loop_forever receives
Start ==
    /\ ModuleStart
    /\ session' = "receiving"
    /\ link' = "connected"
    /\ subscriptions' = {TOPIC}
    /\ UNCHANGED <<published, processed, last_connect>>

\* the state after a call of on_message with outcome r; sq and io are what
\* SQLite and the file system had in store for this call, used or not
Called(payload, r, sq, io) ==
    /\ tracker_data' = r.st.tracker_data
    /\ db_txn' = r.st.db_txn
    /\ csv_file' = r.st.csv_file
    /\ session' = IF r.raised = "none" THEN "receiving" ELSE "terminated"
    /\ last' = [called |-> TRUE, payload |-> payload, raised |-> r.raised,
                trace |-> r.trace, LOG |-> r.LOG, info |-> r.info,
                sq |-> sq, io |-> io]

\* the history of the call with trace t and Reading info: a Reading that
\* passed the validity test is recorded, and so is a sink failing on it
Recorded(t, info, sq, io) ==
    IF \E i \in 1..Len(t) : t[i] = "insert"
    THEN /\ accepted' = Append(accepted, info)
         /\ faulted' = (faulted \/ db_conn = "None" \/ sq # "ok" \/ io # "ok")
    ELSE UNCHANGED <<accepted, faulted>>

\* the receive loop calls on_message for a delivered message.  main() leaves
\* the client's suppress_exceptions off, so an exception leaving the callback
\* leaves loop_forever and main(): the session is over.
OnMessage(payload, sq, io) ==
    /\ session = "receiving"
    /\ Called(payload,
              on_message(payload, db_conn,
                         [tracker_data |-> tracker_data, db_txn |-> db_txn,
                          csv_file |-> csv_file], sq, io),
              sq, io)
    /\ Recorded(last'.trace, last'.info, sq, io)
    /\ delivered' = delivered + 1
    /\ UNCHANGED <<db_conn, bootVars>>

Deliver(msgs, max) ==
    /\ delivered < max
    /\ \E payload \in msgs, sq \in SqOutcomes, io \in IoOutcomes :
           OnMessage(payload, sq, io)
    /\ UNCHANGED connVars

Next == Start \/ Deliver(SessionMsgs, MaxMsgs)

Spec == Init /\ [][Next]_vars

\* the decoder on its own: one message out of DecodeMsgs
NextDecode == Start \/ Deliver(DecodeMsgs, 1)

SpecDecode == Init /\ [][NextDecode]_vars

----------------------------------------------------------------------------
(* The timestamp conversion on its own: one message whose 4197 entry       *)
(* carries an epoch value out of consecutive minutes around 1700000000     *)
(* s, both daylight-saving changes of 2024, a turn of the year and a leap  *)
(* day.                                                                    *)

\* seconds after the start of the first minute
TimeSpan == 119

\* starts (epoch seconds) of the first minute
TimeBases == {1699999980, 1711846740, 1729990740, 1704063540, 1709161140}

\* milliseconds within the second
TimeMillis == {0, 1, 500, 999}

TimeMsg(ts) == Json(Doc("dev-1", <<Entry("4197", 13405, ts), E4198>>, GoodMeta))

TimeMsgs ==
    {TimeMsg(Ts(b + o, ms)) : b \in TimeBases, o \in 0..TimeSpan, ms \in TimeMillis}

NextTime == Start \/ Deliver(TimeMsgs, 1)

SpecTime == Init /\ [][NextTime]_vars

----------------------------------------------------------------------------
(* Start-up of ingestion processes, statement by statement.  Several       *)
(* processes can be started against the same working directory; a process  *)
(* can be stopped at any point and started again.                          *)

\* process starts in one run of the start-up specification
MaxStarts == 3

\* environments a process can be started in
FullEnv ==
    ("TTN_APP_ID" :> "app-1") @@ ("TTN_TENANT" :> "t1") @@
    ("TTN_REGION" :> "nam1") @@ ("TTN_API_KEY" :> "key-1")

MinimalEnv == Without(Without(FullEnv, "TTN_TENANT"), "TTN_REGION")

Environs ==
    {FullEnv, MinimalEnv, Without(FullEnv, "TTN_APP_ID"),
     Without(FullEnv, "TTN_API_KEY"), EmptyDict}

\* a start-up step leaves the session and the connection alone
BootOnly == UNCHANGED <<coreVarsButLog, histVars, connVars>>

At(p, pc) == proc[p].pc = pc

Goto(p, pc) == proc' = [proc EXCEPT ![p].pc = pc]

\* the process p has been started in environ and c = load_credentials(environ)
\* has run
Loaded(p, environ, c) ==
    proc' = [proc EXCEPT ![p] =
                [NotStarted EXCEPT !.pc = IF c.exc = "none" THEN "loaded" ELSE "fatal",
                                   !.environ = environ,
                                   !.tenant = c.tenant,
                                   !.MQTT_HOST = c.MQTT_HOST]]

\* python -m trackermap: load_dotenv and the try block reading the credentials
Launch(p) ==
    /\ At(p, "off") \/ At(p, "fatal")
    /\ starts < MaxStarts
    /\ starts' = starts + 1
    /\ \E environ \in Environs : Loaded(p, environ, load_credentials(environ))
    /\ UNCHANGED <<csv_file, csv_exists, db_file, connects>>
    /\ BootOnly

\* init_csv_writer: file_exists = os.path.isfile(file_path)
IsFile(p) ==
    /\ At(p, "loaded")
    /\ proc' = [proc EXCEPT ![p].pc = "csv_checked", ![p].file_exists = csv_exists]
    /\ UNCHANGED <<starts, csv_file, csv_exists, db_file, connects>>
    /\ BootOnly

\* init_csv_writer: open(file_path, mode='a') creates the file when absent
OpenAppend(p) ==
    /\ At(p, "csv_checked")
    /\ Goto(p, "csv_opened")
    /\ csv_exists' = TRUE
    /\ UNCHANGED <<starts, csv_file, db_file, connects>>
    /\ BootOnly

\* init_csv_writer: if not file_exists: writer.writeheader()
WriteHeader(p) ==
    /\ At(p, "csv_opened")
    /\ Goto(p, "csv_ready")
    /\ csv_file' = init_csv_writer(proc[p].file_exists, csv_file)
    /\ UNCHANGED <<starts, csv_exists, db_file, connects>>
    /\ BootOnly

\* init_db: db_exists = os.path.exists(db_path)
DbExists(p) ==
    /\ At(p, "csv_ready")
    /\ proc' = [proc EXCEPT ![p].pc = "db_checked", ![p].db_exists = db_file.exists]
    /\ UNCHANGED <<starts, csv_file, csv_exists, db_file, connects>>
    /\ BootOnly

\* sqlite3.connect has run (c): on an error init_db returns None; when the
\* file existed before, init_db returns the connection at once
Connected(p, c) ==
    /\ db_file' = c.db_file
    /\ proc' = [proc EXCEPT
                  ![p].pc = IF c.exc # "none" \/ proc[p].db_exists
                            THEN "db_ready" ELSE "db_connected",
                  ![p].db_conn = IF c.exc # "none" THEN "None" ELSE "conn"]

\* init_db: conn = sqlite3.connect(db_path); if not db_exists
DbConnect(p) ==
    /\ At(p, "db_checked")
    /\ \E sqlite_error \in BOOLEAN : Connected(p, sqlite_connect(db_file, sqlite_error))
    /\ UNCHANGED <<starts, csv_file, csv_exists, connects>>
    /\ BootOnly

\* a CREATE TABLE + commit has run (c): on an error init_db returns None
Created(p, c, pc) ==
    /\ db_file' = c.db_file
    /\ proc' = [proc EXCEPT
                  ![p].pc = IF c.exc # "none" THEN "db_ready" ELSE pc,
                  ![p].db_conn = IF c.exc # "none" THEN "None" ELSE "conn"]

\* init_db: CREATE TABLE tracker_data, commit
CreateTrackerData(p) ==
    /\ At(p, "db_connected")
    /\ \E sqlite_error \in BOOLEAN :
           Created(p, create_table(db_file, "tracker_data", sqlite_error), "db_data")
    /\ UNCHANGED <<starts, csv_file, csv_exists, connects>>
    /\ BootOnly

\* init_db: CREATE TABLE tracker_config, commit, return conn
CreateTrackerConfig(p) ==
    /\ At(p, "db_data")
    /\ \E sqlite_error \in BOOLEAN :
           Created(p, create_table(db_file, "tracker_config", sqlite_error), "db_ready")
    /\ UNCHANGED <<starts, csv_file, csv_exists, connects>>
    /\ BootOnly

\* sys.exit(main()): main() builds the client and calls client.connect
MainConnect(p) ==
    /\ At(p, "db_ready")
    /\ Goto(p, "main")
    /\ connects' = connects + 1
    /\ UNCHANGED <<starts, csv_file, csv_exists, db_file>>
    /\ BootOnly

\* the process is stopped from outside (signal, power loss): its files stay
\* as they are
Stop(p) ==
    /\ ~At(p, "off") /\ ~At(p, "fatal")
    /\ proc' = [proc EXCEPT ![p] = NotStarted]
    /\ UNCHANGED <<starts, csv_file, csv_exists, db_file, connects>>
    /\ BootOnly

StepBoot(p) ==
    \/ Launch(p)
    \/ IsFile(p)
    \/ OpenAppend(p)
    \/ WriteHeader(p)
    \/ DbExists(p)
    \/ DbConnect(p)
    \/ CreateTrackerData(p)
    \/ CreateTrackerConfig(p)
    \/ MainConnect(p)
    \/ Stop(p)

NextBoot == \E p \in Procs : StepBoot(p)

SpecBoot == Init /\ [][NextBoot]_vars

----------------------------------------------------------------------------
(* The connection to the broker: main() and the callbacks loop_forever     *)
(* calls.  The client is created with the library defaults: a clean        *)
(* session, so the broker forgets the subscription when the connection     *)
(* ends, and subscribe(TOPIC) asks for QoS 0, so the broker sends each     *)
(* publication at most once and keeps none for a session that is down.     *)

\* calls of on_connect in one run of the connection specification
MaxConnacks == 3

\* publications in one run of the connection specification
MaxPublished == 3

\* payloads delivered in the connection specification
ConnMsgs == {Json(GoodDoc), Json(Doc("dev-2", <<E4197>>, GoodMeta)), Malformed}

\* the module-level code has run; main() has not connected yet
Boot ==
    /\ ModuleStart
    /\ session' = "started"
    /\ UNCHANGED connVars

\* main(): the client is built and client.connect(MQTT_HOST, port=8883) is
\* called outside any try: an OSError leaves main(), otherwise loop_forever
\* starts
MainStarts ==
    /\ session = "started"
    /\ connects' = connects + 1
    /\ \E outcome \in ConnectOutcomes :
           /\ session' = IF outcome = "ok" THEN "receiving" ELSE "terminated"
           /\ link' = IF outcome = "ok" THEN "connecting" ELSE "crashed"
    /\ UNCHANGED <<db_conn, tracker_data, db_txn, csv_file, delivered, last>>
    /\ UNCHANGED <<histVars, proc, starts, csv_exists, db_file>>
    /\ UNCHANGED <<subscriptions, published, processed, last_connect>>

\* the state after on_connect(rc) with outcome r: the broker registers the
\* subscriptions of an accepted connection and closes a refused one
ConnectCalled(rc, r) ==
    /\ last_connect' = [n |-> last_connect.n + 1, rc |-> rc, raised |-> r.raised,
                        subscribe |-> r.subscribe, LOG |-> r.LOG]
    /\ subscriptions' = IF rc = 0
                        THEN subscriptions \cup {r.subscribe[i] : i \in 1..Len(r.subscribe)}
                        ELSE subscriptions
    /\ link' = IF rc = 0 THEN "connected" ELSE "disconnected"
    /\ session' = IF r.raised = "none" THEN "receiving" ELSE "terminated"

\* loop_forever reads the CONNACK and calls on_connect
OnConnect ==
    /\ session = "receiving"
    /\ link = "connecting"
    /\ last_connect.n < MaxConnacks
    /\ \E rc \in ConnackCodes : ConnectCalled(rc, on_connect(rc))
    /\ UNCHANGED <<db_conn, tracker_data, db_txn, csv_file, delivered, last>>
    /\ UNCHANGED <<histVars, bootVars, published, processed>>

\* the connection ends: network failure or the broker disconnects
Drop ==
    /\ session = "receiving"
    /\ link \in {"connecting", "connected"}
    /\ link' = "disconnected"
    /\ subscriptions' = {}
    /\ UNCHANGED <<coreVars, histVars, bootVars, published, processed, last_connect>>

\* loop_forever waits and calls reconnect(); it catches the OSError of a
\* failed attempt and tries again
Reconnect ==
    /\ session = "receiving"
    /\ link = "disconnected"
    /\ \E outcome \in ConnectOutcomes :
           link' = IF outcome = "ok" THEN "connecting" ELSE "disconnected"
    /\ UNCHANGED <<coreVars, histVars, bootVars>>
    /\ UNCHANGED <<subscriptions, published, processed, last_connect>>

\* a device publishes while the session holds no subscription: the broker
\* has nobody to send the message to
Miss ==
    /\ session = "receiving"
    /\ TOPIC \notin subscriptions
    /\ published < MaxPublished
    /\ published' = published + 1
    /\ UNCHANGED <<coreVars, histVars, bootVars>>
    /\ UNCHANGED <<link, subscriptions, processed, last_connect>>

\* a device publishes while the session is subscribed: the broker sends the
\* message and loop_forever calls on_message
DeliverConn ==
    /\ link = "connected"
    /\ TOPIC \in subscriptions
    /\ published < MaxPublished
    /\ \E payload \in ConnMsgs, sq \in SqOutcomes, io \in IoOutcomes :
           OnMessage(payload, sq, io)
    /\ published' = published + 1
    /\ processed' = Append(processed, published + 1)
    /\ UNCHANGED <<link, subscriptions, last_connect>>

NextConn ==
    \/ Boot
    \/ MainStarts
    \/ OnConnect
    \/ Drop
    \/ Reconnect
    \/ Miss
    \/ DeliverConn

SpecConn == Init /\ [][NextConn]_vars

----------------------------------------------------------------------------
(* Vocabulary of the properties: classes of messages, read off the message *)
(* itself, and what the last call did.                                     *)

Reached(step) == \E i \in 1..Len(last.trace) : last.trace[i] = step

Recognized == {"4197", "4198", "3000"}

HasDevice(doc) ==
    HasKey(doc, "end_device_ids") /\ HasKey(doc["end_device_ids"], "device_id")

HasMessagesKey(doc) ==
    /\ HasKey(doc, "uplink_message")
    /\ HasKey(doc["uplink_message"], "decoded_payload")
    /\ HasKey(doc["uplink_message"]["decoded_payload"], "messages")

HasRxKey(doc) ==
    HasKey(doc, "uplink_message") /\ HasKey(doc["uplink_message"], "rx_metadata")

NonEmptyLists(doc) ==
    /\ HasMessagesKey(doc) /\ HasRxKey(doc)
    /\ doc["uplink_message"]["decoded_payload"]["messages"] # <<>>
    /\ doc["uplink_message"]["rx_metadata"] # <<>>

PaylOf(doc) == doc["uplink_message"]["decoded_payload"]["messages"][1]

MetaOf(doc) == doc["uplink_message"]["rx_metadata"][1]

MetaComplete(meta) ==
    /\ HasKey(meta, "gateway_ids") /\ HasKey(meta["gateway_ids"], "gateway_id")
    /\ HasKey(meta, "rssi")
    /\ HasKey(meta, "location")
    /\ HasKey(meta["location"], "latitude") /\ HasKey(meta["location"], "longitude")

\* the keys the traversal needs of an entry: the code always, the value of a
\* recognized code, the timestamp of a 4197 entry
EntryComplete(e) ==
    /\ HasKey(e, "measurementId")
    /\ e["measurementId"] \in Recognized => HasKey(e, "measurementValue")
    /\ e["measurementId"] = "4197" => HasKey(e, "timestamp")

EntryParses(e) ==
    EntryComplete(e) /\ (e["measurementId"] = "4197" => e["timestamp"].num)

IsUnrecognized(e) == HasKey(e, "measurementId") /\ e["measurementId"] \notin Recognized

\* a message every decoding step accepts
WellFormed(p) ==
    /\ p.kind = "json"
    /\ HasDevice(p.doc)
    /\ NonEmptyLists(p.doc)
    /\ MetaComplete(MetaOf(p.doc))
    /\ \A i \in 1..Len(PaylOf(p.doc)) : EntryParses(PaylOf(p.doc)[i])

MissingDeviceId(p) == p.kind = "json" /\ ~HasDevice(p.doc)

\* rx_metadata or decoded_payload.messages missing, a gateway sub-field
\* missing, or a measurement entry without a key the traversal needs
StructurallyDefective(p) ==
    /\ p.kind = "json"
    /\ \/ ~HasMessagesKey(p.doc)
       \/ ~HasRxKey(p.doc)
       \/ /\ NonEmptyLists(p.doc)
          /\ \/ ~MetaComplete(MetaOf(p.doc))
             \/ \E i \in 1..Len(PaylOf(p.doc)) : ~EntryComplete(PaylOf(p.doc)[i])

\* a 4197 entry whose timestamp int() rejects
HasUnparseableValue(p) ==
    /\ p.kind = "json" /\ NonEmptyLists(p.doc)
    /\ \E i \in 1..Len(PaylOf(p.doc)) :
          LET e == PaylOf(p.doc)[i]
          IN  /\ HasKey(e, "measurementId") /\ e["measurementId"] = "4197"
              /\ HasKey(e, "timestamp") /\ ~e["timestamp"].num

HasEmptyList(p) ==
    /\ p.kind = "json" /\ HasMessagesKey(p.doc) /\ HasRxKey(p.doc)
    /\ ~NonEmptyLists(p.doc)

\* the failure classes the error taxonomy calls recoverable per message
RecoverablePerMessage(p) ==
    \/ p.kind = "malformed"
    \/ MissingDeviceId(p)
    \/ StructurallyDefective(p)
    \/ HasEmptyList(p)
    \/ HasUnparseableValue(p)

\* the field of a log line under the header's column name k
LineField(line, k) ==
    line[CHOOSE i \in 1..Len(csv_file[1]) : csv_file[1][i] = k]

NonZeroRow(row) == row["latitude"] # 0 /\ row["longitude"] # 0

----------------------------------------------------------------------------
(* C1 *)

\* C1 - zero-sentinel invariant: every row of tracker_data (committed or
\* still in the connection's transaction) and every data line of the log has
\* latitude # 0 and longitude # 0; a message that decodes with latitude = 0
\* or longitude = 0 reaches neither sink call.
C1_ZeroSentinel ==
    /\ \A i \in 1..Len(tracker_data) : NonZeroRow(tracker_data[i])
    /\ \A i \in 1..Len(db_txn) : NonZeroRow(db_txn[i])
    /\ \A i \in 2..Len(csv_file) :
          LineField(csv_file[i], "latitude") # "0" /\ LineField(csv_file[i], "longitude") # "0"
    /\ (last.called /\ Reached("validity")
            /\ (last.info["latitude"] = 0 \/ last.info["longitude"] = 0))
       => (~Reached("insert") /\ ~Reached("writerow"))

\* a valid Reading is in both sinks, and then a message with a longitude but
\* latitude 0 was decoded without error
C1_Witness ==
    /\ last.called /\ last.raised = "none" /\ Reached("validity")
    /\ last.info["longitude"] # 0 /\ last.info["latitude"] = 0
    /\ Len(tracker_data) = 1 /\ Len(csv_file) = 2

----------------------------------------------------------------------------
(* C2 *)

\* C2 - no error from message processing leaves the callback: for a message
\* of any recoverable-per-message failure class (malformed JSON, missing
\* device id, missing or empty measurement/metadata structure, unparseable
\* timestamp on code 4197) on_message returns normally and the session keeps
\* receiving.
C2_NoErrorPropagates ==
    (last.called /\ RecoverablePerMessage(last.payload))
    => (last.raised = "none" /\ session = "receiving")

----------------------------------------------------------------------------
(* C3 *)

\* C3 - malformed JSON is a terminal decode failure: the failure is logged
\* and the call enters no step after json.loads.
C3_MalformedJsonIsTerminal ==
    (last.called /\ last.payload.kind = "malformed")
    => (last.LOG = <<"Json Decoding error">> /\ last.trace = <<"json_loads">>)

----------------------------------------------------------------------------
(* C4 *)

\* C4 - a message without end_device_ids.device_id is a non-fatal decode
\* failure: it is logged, no sink is called, nothing is raised to the receive
\* loop and the session keeps receiving.
C4_MissingDeviceIdNonFatal ==
    (last.called /\ MissingDeviceId(last.payload))
    => /\ last.LOG # <<>>
       /\ ~Reached("insert") /\ ~Reached("writerow")
       /\ last.raised = "none"
       /\ session = "receiving"

----------------------------------------------------------------------------
(* C5 *)

C5_DefectiveStep ==
    delivered' = delivered + 1 /\ StructurallyDefective(last'.payload)

\* C5 - decode failure leaves both sinks unchanged: a call of on_message with
\* a message that lacks rx_metadata or decoded_payload.messages, a gateway
\* sub-field, or a needed key of a measurement entry at any position never
\* reaches the validity test, and tracker_data, the open transaction and the
\* log file are the same after the call as before.
C5_DecodeFailureLeavesSinks ==
    [][C5_DefectiveStep =>
          /\ \A i \in 1..Len(last'.trace) :
                 last'.trace[i] \notin {"validity", "insert", "writerow"}
          /\ tracker_data' = tracker_data
          /\ db_txn' = db_txn
          /\ csv_file' = csv_file]_vars

\* a Reading is in both sinks, and the last message had valid 4197 and 4198
\* entries followed by an entry without measurementId
C5_Witness ==
    /\ last.called
    /\ StructurallyDefective(last.payload)
    /\ NonEmptyLists(last.payload.doc)
    /\ PaylOf(last.payload.doc) = <<E4197, E4198, Without(E3000, "measurementId")>>
    /\ Len(tracker_data) = 1 /\ Len(csv_file) = 2

----------------------------------------------------------------------------
(* C6 *)

\* the store row that carries a Reading: column by column
ReadingRow(info) ==
    [tracker_id |-> info["tracker_id"], longitude |-> info["longitude"],
     latitude |-> info["latitude"], battery |-> info["battery"],
     timestamp |-> info["timestamp"], gw_rssi |-> info["gw-rssi"],
     gw_name |-> info["gw-name"], gw_longitude |-> info["gw-longitude"],
     gw_latitude |-> info["gw-latitude"]]

\* the log line carries the Reading: under each column name of the header,
\* the text of that field
LineCarries(line, info) ==
    /\ Len(line) = Len(csv_file[1])
    /\ \A i \in 1..Len(line) : line[i] = CsvField(csv_file[1][i], info[csv_file[1][i]])

\* a well-formed message that decodes to a valid Reading is delivered while
\* the store handle is a connection without a left-over transaction, and
\* neither SQLite nor the file system fails during the call
C6_ValidStep ==
    /\ delivered' = delivered + 1
    /\ WellFormed(last'.payload)
    /\ last'.info["latitude"] # 0 /\ last'.info["longitude"] # 0
    /\ db_conn = "conn" /\ db_txn = <<>>
    /\ last'.sq = "ok" /\ last'.io = "ok"

\* C6 - dual-sink persistence: such a call adds exactly one row to
\* tracker_data and exactly one line to the log file; both carry the decoded
\* Reading field by field (latitude in latitude, longitude in longitude), the
\* tracker id and gateway fields are those of the message, and the end-to-end
\* example of dev-1 yields the row and the line of the specification.
C6_DualSinkPersistence ==
    [][C6_ValidStep =>
          /\ tracker_data' = Append(tracker_data, ReadingRow(last'.info))
          /\ db_txn' = <<>>
          /\ Len(csv_file') = Len(csv_file) + 1
          /\ SubSeq(csv_file', 1, Len(csv_file)) = csv_file
          /\ LineCarries(csv_file'[Len(csv_file')], last'.info)
          /\ last'.info["tracker_id"] = last'.payload.doc["end_device_ids"]["device_id"]
          /\ last'.info["gw-name"] = MetaOf(last'.payload.doc)["gateway_ids"]["gateway_id"]
          /\ last'.info["gw-rssi"] = MetaOf(last'.payload.doc)["rssi"]
          /\ last'.info["gw-latitude"] = MetaOf(last'.payload.doc)["location"]["latitude"]
          /\ last'.info["gw-longitude"] = MetaOf(last'.payload.doc)["location"]["longitude"]
          /\ last'.payload = Json(GoodDoc) =>
                /\ tracker_data'[Len(tracker_data')] =
                      [tracker_id |-> "dev-1", longitude |-> 13405, latitude |-> 52520,
                       battery |-> 87, timestamp |-> "2023-11-14 23:13",
                       gw_rssi |-> -97, gw_name |-> "gw-1",
                       gw_longitude |-> 11500, gw_latitude |-> 48100]
                /\ csv_file'[Len(csv_file')] =
                      <<"dev-1", "52520", "13405", "87", "2023-11-14 23:13",
                        "-97", "gw-1", "48100", "11500">>]_vars

\* two valid messages in a row, the second the dev-1 example: two rows, two
\* lines under the header
C6_Witness ==
    /\ last.called /\ last.payload = Json(GoodDoc)
    /\ last.sq = "ok" /\ last.io = "ok" /\ last.raised = "none"
    /\ db_conn = "conn" /\ db_txn = <<>>
    /\ Len(tracker_data) = 2 /\ Len(csv_file) = 3
    /\ tracker_data[2]["longitude"] = 13405 /\ tracker_data[2]["latitude"] = 52520

----------------------------------------------------------------------------
(* C7 *)

CountCode(payl, c) ==
    Cardinality({i \in 1..Len(payl) : payl[i]["measurementId"] = c})

EntryOf(payl, c) == payl[CHOOSE i \in 1..Len(payl) : payl[i]["measurementId"] = c]

\* a valid envelope whose measurement list has one entry of each recognized
\* code, in any order and among any other entries
C7_Case(p) ==
    /\ WellFormed(p)
    /\ \A c \in Recognized : CountCode(PaylOf(p.doc), c) = 1

\* C7 - measurement decoding: for such a message decoding completes and the
\* Reading has longitude = value of the 4197 entry, latitude = value of the
\* 4198 entry, battery = value of the 3000 entry, whatever the order.
C7_MeasurementDecoding ==
    (last.called /\ C7_Case(last.payload))
    => /\ Reached("validity")
       /\ last.info["longitude"] = EntryOf(PaylOf(last.payload.doc), "4197")["measurementValue"]
       /\ last.info["latitude"] = EntryOf(PaylOf(last.payload.doc), "4198")["measurementValue"]
       /\ last.info["battery"] = EntryOf(PaylOf(last.payload.doc), "3000")["measurementValue"]

\* the three codes in the reverse of the usual order
C7_Witness ==
    /\ last.called /\ C7_Case(last.payload)
    /\ PaylOf(last.payload.doc) = <<E3000, E4198, E4197>>
    /\ last.info["longitude"] = 13405 /\ last.info["latitude"] = 52520
    /\ last.info["battery"] = 87

----------------------------------------------------------------------------
(* C8 *)

\* the measurement list without its entries of unrecognized code
Strip(payl) == SelectSeq(payl, LAMBDA e : ~IsUnrecognized(e))

StrippedDoc(doc) ==
    Doc(doc["end_device_ids"]["device_id"], Strip(PaylOf(doc)), MetaOf(doc))

\* the decoding of the message without its unrecognized entries
StrippedDecode(doc) == Decode(StrippedDoc(doc), DeviceId(StrippedDoc(doc)))

OnlyUnrecognized(payl) ==
    payl # <<>> /\ \A i \in 1..Len(payl) : IsUnrecognized(payl[i])

\* C8 - unrecognized measurement codes are ignored: the Reading decoded from
\* a message, whether its decoding completed and whether it was handed to the
\* sinks are those of the same message without its unrecognized entries; a
\* message with only unrecognized codes decodes without failure, keeps
\* latitude and longitude 0 and adds a row to neither sink.
C8_UnrecognizedIgnored ==
    last.called =>
       /\ last.info = StrippedDecode(last.payload.doc).info
       /\ Reached("validity") <=> StrippedDecode(last.payload.doc).exc = "none"
       /\ Reached("insert") <=>
             /\ StrippedDecode(last.payload.doc).exc = "none"
             /\ NonZeroRow(StrippedDecode(last.payload.doc).info)
       /\ OnlyUnrecognized(PaylOf(last.payload.doc)) =>
             /\ last.raised = "none"
             /\ last.trace[Len(last.trace)] = "validity"
             /\ last.info["latitude"] = 0 /\ last.info["longitude"] = 0
             /\ tracker_data = <<>> /\ db_txn = <<>> /\ Len(csv_file) = 1

\* an unrecognized entry between the 4197 and the 4198 entry, and the Reading
\* was handed to the sinks
C8_Witness ==
    /\ last.called
    /\ PaylOf(last.payload.doc) = <<E4197, EOther, E4198>>
    /\ Reached("insert")
    /\ last.info["battery"] = 0

----------------------------------------------------------------------------
(* C9 *)

\* the store write of the last call failed
StoreWriteFailed == Reached("insert") /\ (db_conn = "None" \/ last.sq # "ok")

\* C9 - store insert never raises to its caller: when the store write fails
\* (SQLite error on insert or commit, or the None handle of a failed init_db)
\* insert_tracker_info returns normally, so on_message goes on to the log
\* append, and the failed write is neither retried nor rolled back by the
\* code.
C9_InsertNeverRaises ==
    (last.called /\ StoreWriteFailed)
    => /\ Reached("writerow")
       /\ last.raised \in {"none", "OSError"}
       /\ last.io = "ok" => session = "receiving"

----------------------------------------------------------------------------
(* C10 *)

\* C10 - log-append I/O failure is recoverable per write: when writerow fails
\* the failure is logged, nothing leaves on_message and the session keeps
\* receiving.
C10_LogAppendFailureRecoverable ==
    (last.called /\ Reached("writerow") /\ last.io = "OSError")
    => (last.raised = "none" /\ session = "receiving")

----------------------------------------------------------------------------
(* C16 *)

IsPrefix(s, t) == Len(s) <= Len(t) /\ \A i \in 1..Len(s) : s[i] = t[i]

\* s is t with some elements left out, the order kept
IsSubseq(s, t) ==
    \E f \in [1..Len(s) -> 1..Len(t)] :
        /\ \A i, j \in 1..Len(s) : i < j => f[i] < f[j]
        /\ \A i \in 1..Len(s) : s[i] = t[f[i]]

\* the rows and the lines of the Readings found valid so far, in delivery order
AcceptedRows == [i \in 1..Len(accepted) |-> ReadingRow(accepted[i])]

AcceptedLines == [i \in 1..Len(accepted) |-> CsvLine(accepted[i])]

DataLines == IF csv_file = <<>> THEN <<>> ELSE Tail(csv_file)

\* rows and lines are those of valid Readings, in delivery order, each at
\* most once; all of them when no sink has failed
PersistedInOrder ==
    /\ IsSubseq(tracker_data, AcceptedRows)
    /\ IsSubseq(DataLines, AcceptedLines)
    /\ ~faulted => tracker_data = AcceptedRows /\ DataLines = AcceptedLines

\* C16: within one session the rows of the store and the lines of the log
\* are the Readings of the valid messages in the order of delivery, each
\* persisted once (every one of them as long as no sink fails), and no step
\* changes, reorders or removes a row or line written earlier: the earlier
\* contents remain a prefix.
C16_AppendOnlyInOrder ==
    /\ []PersistedInOrder
    /\ [][IsPrefix(tracker_data, tracker_data') /\ IsPrefix(csv_file, csv_file')]_vars

\* two different valid Readings have been persisted, in delivery order
C16_Witness ==
    /\ Len(accepted) = 2
    /\ accepted[1] # accepted[2]
    /\ ~faulted
    /\ Len(tracker_data) = 2
    /\ Len(csv_file) = 3

----------------------------------------------------------------------------
(* C17 *)

\* C17: every persisted Reading has a non-empty tracker_id, also after
\* messages whose end_device_ids.device_id is the empty string: no row of
\* the store and no line of the log has tracker_id = "".
C17_TrackerIdNonEmpty ==
    /\ \A i \in 1..Len(tracker_data) : tracker_data[i]["tracker_id"] # ""
    /\ \A i \in 2..Len(csv_file) : LineField(csv_file[i], "tracker_id") # ""

----------------------------------------------------------------------------
(* C18 *)

\* Europe/Berlin wall-clock minute of the minutes starting at these epoch
\* seconds, as the tz database gives them
ReferenceMinute ==
    (1699999980 :> "2023-11-14 23:13") @@ (1700000040 :> "2023-11-14 23:14") @@ (1700000100 :> "2023-11-14 23:15") @@
    (1711846740 :> "2024-03-31 01:59") @@ (1711846800 :> "2024-03-31 03:00") @@ (1711846860 :> "2024-03-31 03:01") @@
    (1729990740 :> "2024-10-27 02:59") @@ (1729990800 :> "2024-10-27 02:00") @@ (1729990860 :> "2024-10-27 02:01") @@
    (1704063540 :> "2023-12-31 23:59") @@ (1704063600 :> "2024-01-01 00:00") @@ (1704063660 :> "2024-01-01 00:01") @@
    (1709161140 :> "2024-02-28 23:59") @@ (1709161200 :> "2024-02-29 00:00") @@ (1709161260 :> "2024-02-29 00:01")

\* the epoch value of the 4197 entry of the last message
LastEpoch ==
    last.payload.doc["uplink_message"]["decoded_payload"]["messages"][1][1]["timestamp"]

\* C18: the Reading's timestamp is the Europe/Berlin minute that contains
\* the epoch value of the 4197 entry, truncated, never rounded up: every
\* epoch value of one minute gives that minute's string, whatever the
\* seconds and milliseconds, and 1700000000000 gives 2023-11-14 23:13.
C18_TimestampDerivation ==
    last.called =>
        /\ last.info["timestamp"] = ReferenceMinute[LastEpoch.sec - (LastEpoch.sec % 60)]
        /\ (LastEpoch.sec = 1700000000 /\ LastEpoch.msec = 0)
           => last.info["timestamp"] = "2023-11-14 23:13"

\* the last millisecond of the minute of 1700000000000
C18_Witness ==
    /\ last.called
    /\ LastEpoch.sec = 1700000039 /\ LastEpoch.msec = 999
    /\ last.info["timestamp"] = "2023-11-14 23:13"

----------------------------------------------------------------------------
(* C20 *)

\* the values the message p carries under the measurement code
ValuesOf(p, code) ==
    IF p.kind = "json" /\ NonEmptyLists(p.doc)
    THEN {PaylOf(p.doc)[i]["measurementValue"] :
            i \in {k \in 1..Len(PaylOf(p.doc)) :
                     /\ HasKey(PaylOf(p.doc)[k], "measurementId")
                     /\ PaylOf(p.doc)[k]["measurementId"] = code
                     /\ HasKey(PaylOf(p.doc)[k], "measurementValue")}}
    ELSE {}

\* the minute strings of the 4197 entries of p
TimestampsOf(p) ==
    IF p.kind = "json" /\ NonEmptyLists(p.doc)
    THEN {FormatTimestamp(PaylOf(p.doc)[i]["timestamp"]) :
            i \in {k \in 1..Len(PaylOf(p.doc)) :
                     /\ HasKey(PaylOf(p.doc)[k], "measurementId")
                     /\ PaylOf(p.doc)[k]["measurementId"] = "4197"
                     /\ HasKey(PaylOf(p.doc)[k], "timestamp")
                     /\ PaylOf(p.doc)[k]["timestamp"].num}}
    ELSE {}

DeviceOf(p) ==
    IF p.kind = "json" /\ HasDevice(p.doc)
    THEN {p.doc["end_device_ids"]["device_id"]} ELSE {}

\* the value the first rx_metadata element of p holds under key k of its
\* sub-object sub
MetaValue(p, sub, k) ==
    IF /\ p.kind = "json" /\ NonEmptyLists(p.doc)
       /\ HasKey(MetaOf(p.doc), sub) /\ HasKey(MetaOf(p.doc)[sub], k)
    THEN {MetaOf(p.doc)[sub][k]} ELSE {}

RssiOf(p) ==
    IF p.kind = "json" /\ NonEmptyLists(p.doc) /\ HasKey(MetaOf(p.doc), "rssi")
    THEN {MetaOf(p.doc)["rssi"]} ELSE {}

\* every field of the Reading is its default or a value of the message p
FromThisMessage(p, info) ==
    /\ info["tracker_id"] \in {""} \cup DeviceOf(p)
    /\ info["longitude"] \in {0} \cup ValuesOf(p, "4197")
    /\ info["latitude"] \in {0} \cup ValuesOf(p, "4198")
    /\ info["battery"] \in {0} \cup ValuesOf(p, "3000")
    /\ info["timestamp"] \in {""} \cup TimestampsOf(p)
    /\ info["gw-rssi"] \in {-70} \cup RssiOf(p)
    /\ info["gw-name"] \in {""} \cup MetaValue(p, "gateway_ids", "gateway_id")
    /\ info["gw-latitude"] \in {0} \cup MetaValue(p, "location", "latitude")
    /\ info["gw-longitude"] \in {0} \cup MetaValue(p, "location", "longitude")

Only4197 == Json(Doc("dev-1", <<E4197>>, GoodMeta))

Only4198 == Json(Doc("dev-1", <<E4198>>, GoodMeta))

\* a message with only code 4198 is delivered right after one with only
\* code 4197
Only4198AfterOnly4197 ==
    /\ last.called /\ last.payload = Only4197
    /\ delivered' = delivered + 1
    /\ last'.payload = Only4198

\* C20: the Reading on_message builds depends on the message being
\* processed alone: each field is its default or a value of that message,
\* whatever was delivered before (messages whose decoding stopped midway
\* included); a message with only code 4198 right after a message with only
\* code 4197 has longitude 0 and reaches neither sink.
C20_PerMessageIsolation ==
    /\ [](last.called => FromThisMessage(last.payload, last.info))
    /\ [][Only4198AfterOnly4197 =>
             /\ last'.info["longitude"] = 0
             /\ UNCHANGED <<tracker_data, db_txn, csv_file>>]_vars

\* a Reading with longitude 13.405 was persisted, then a message with only
\* code 4198 was delivered: its Reading has longitude 0 and was not persisted
C20_Witness ==
    /\ delivered = 2
    /\ Len(accepted) = 1 /\ accepted[1]["longitude"] = 13405
    /\ last.payload = Only4198
    /\ last.info["longitude"] = 0 /\ last.info["latitude"] = 52520
    /\ ~Reached("insert")

----------------------------------------------------------------------------
(* C21 *)

\* the store column that holds the Reading field k
ColumnOf(k) ==
    CASE k = "gw-rssi" -> "gw_rssi"
      [] k = "gw-name" -> "gw_name"
      [] k = "gw-latitude" -> "gw_latitude"
      [] k = "gw-longitude" -> "gw_longitude"
      [] OTHER -> k

\* the log line of the Reading a store row holds, under the header of the file
RowLine(row) ==
    [i \in 1..Len(csv_file[1]) |-> CsvField(csv_file[1][i], row[ColumnOf(csv_file[1][i])])]

StoreLines == [i \in 1..Len(tracker_data) |-> RowLine(tracker_data[i])]

\* the Readings of the store are a sub-sequence of the Readings of the log
StoreWithinLog == IsSubseq(StoreLines, DataLines)

\* the log append of the last call failed
LogAppendFailed == last.called /\ Reached("writerow") /\ last.io = "OSError"

\* a valid Reading meets a store failure that insert_tracker_info swallows,
\* and a log file that can be written
SwallowedStoreFailureStep ==
    /\ delivered' = delivered + 1
    /\ \E i \in 1..Len(last'.trace) : last'.trace[i] = "insert"
    /\ db_conn = "conn"
    /\ last'.sq # "ok" /\ last'.io = "ok"

\* C21 as stated: from an empty store and an empty log on, no reachable
\* state has a Reading in the store that is missing from the log.
C21_StoreWithinLog == StoreWithinLog

\* C21, amended: the Readings of the store are a sub-sequence of those of the
\* log in every state except the one left by a call whose log append itself
\* failed (the insert comes first and has been committed by then); a store
\* failure that insert_tracker_info swallows still has the line appended.
C21_StoreWithinLogUnlessAppendFailed ==
    /\ [](~LogAppendFailed => StoreWithinLog)
    /\ [][SwallowedStoreFailureStep =>
             csv_file' = Append(csv_file, CsvLine(last'.info))]_vars

\* one Reading is in both sinks, a second one only in the log because its
\* insert failed and the failure was swallowed
C21_Witness ==
    /\ delivered = 2
    /\ Len(tracker_data) = 1
    /\ Len(csv_file) = 3
    /\ last.sq = "execute_error"
    /\ session = "receiving"

----------------------------------------------------------------------------
(* C22 *)

\* a valid position with a 4197 entry that has no timestamp key
NoTimestampMsg ==
    Json(Doc("dev-1", <<E4198, Without(E4197, "timestamp")>>, GoodMeta))

\* C22: every row of the store, committed or still in the connection's
\* transaction, and every data line of the log has a non-empty timestamp:
\* the timestamp is set in the step that sets longitude from a 4197 entry,
\* and a 4197 entry without a timestamp key stops the decoding before the
\* sinks.
C22_PersistedHasTimestamp ==
    /\ \A i \in 1..Len(tracker_data) : tracker_data[i]["timestamp"] # ""
    /\ \A i \in 1..Len(db_txn) : db_txn[i]["timestamp"] # ""
    /\ \A i \in 2..Len(csv_file) : LineField(csv_file[i], "timestamp") # ""
    /\ (last.called /\ last.payload = NoTimestampMsg) =>
          /\ ~Reached("insert") /\ ~Reached("writerow")
          /\ last.info["longitude"] # 0 /\ last.info["timestamp"] = ""

\* a Reading was persisted with its timestamp, then the message whose 4197
\* entry has no timestamp key was delivered and reached neither sink
C22_Witness ==
    /\ delivered = 2
    /\ last.payload = NoTimestampMsg
    /\ Len(tracker_data) = 1 /\ tracker_data[1]["timestamp"] = "2023-11-14 23:13"
    /\ Len(csv_file) = 2

----------------------------------------------------------------------------
(* Start-up properties *)

\* the process p has returned from init_csv_writer
CsvInitDone(p) ==
    proc[p].pc \in {"csv_ready", "db_checked", "db_connected", "db_data",
                    "db_ready", "main"}

HeaderLines == {i \in 1..Len(csv_file) : csv_file[i] = CsvHeader}

\* C11: however many ingestion processes have been started against the
\* path, one after another or concurrently, once a process has initialised
\* the log the file holds exactly one header row, and it is the first line.
C11_HeaderExactlyOnce ==
    (\E p \in Procs : CsvInitDone(p)) => HeaderLines = {1}

\* the process p has returned from init_db
DbInitDone(p) == proc[p].pc \in {"db_ready", "main"}

\* the process q is inside init_db, between sqlite3.connect and the second
\* CREATE TABLE
CreatingTables(q) == proc[q].pc \in {"db_connected", "db_data"}

\* C12: whenever init_db has returned a connection, both tables exist in the
\* store file, whatever the file was before the call: absent, complete,
\* present but empty, or holding tracker_data only.
C12_SchemaEnsured ==
    \A p \in Procs :
        /\ DbInitDone(p)
        /\ proc[p].db_conn = "conn"
        /\ \A q \in Procs \ {p} : ~CreatingTables(q)
        => db_file.tables = Schema

HasCredentials(environ) ==
    HasKey(environ, "TTN_APP_ID") /\ HasKey(environ, "TTN_API_KEY")

\* a started process has failed exactly when a credential is absent;
\* otherwise tenant and region are the given ones or "ttn" and "eu1"
StartFailsOnlyWithoutCredentials(p) ==
    /\ proc[p].pc = "fatal" <=> ~HasCredentials(proc[p].environ)
    /\ HasCredentials(proc[p].environ) =>
          /\ proc[p].tenant =
                 IF HasKey(proc[p].environ, "TTN_TENANT")
                 THEN proc[p].environ["TTN_TENANT"] ELSE "ttn"
          /\ proc[p].MQTT_HOST =
                 IF HasKey(proc[p].environ, "TTN_REGION")
                 THEN proc[p].environ["TTN_REGION"] \o ".cloud.thethings.network"
                 ELSE "eu1.cloud.thethings.network"

\* a step that leaves p failed, or that a failed p takes, opens no file and
\* makes no connection attempt; the only step of a failed p is a new start
FailedStartTouchesNothing(p) ==
    (proc'[p] # proc[p] /\ (proc'[p].pc = "fatal" \/ proc[p].pc = "fatal")) =>
        /\ UNCHANGED <<csv_file, csv_exists, db_file, connects>>
        /\ proc[p].pc \in {"off", "fatal"}
        /\ proc'[p].pc \in {"fatal", "loaded"}

\* C13: a process started without the application id or the API key fails
\* to start before any side effect: no connection attempt, no log file and
\* no store file created or opened.  Absence of tenant or region is not
\* fatal: "ttn" and "eu1" are used.
C13_MissingCredentialFatal ==
    /\ [](\A p \in Procs : proc[p].pc # "off" => StartFailsOnlyWithoutCredentials(p))
    /\ [][\A p \in Procs : FailedStartTouchesNothing(p)]_vars

\* one process has failed on a missing credential in a directory still
\* empty of files made by it, another runs main() on the defaults
C13_Witness ==
    \E p, q \in Procs :
        /\ proc[p].pc = "fatal"
        /\ proc[q].pc = "main"
        /\ proc[q].environ = MinimalEnv
        /\ proc[q].MQTT_HOST = "eu1.cloud.thethings.network"

----------------------------------------------------------------------------
(* Connection properties *)

\* C14: with the credentials present, no connection failure - at the first
\* connect or later, by the network, TLS, a refused CONNACK or a disconnect -
\* ends the ingestion process: the process ends only when a call of
\* on_message has raised.
C14_ConnectionFailureNotFatal ==
    session = "terminated" => last.called /\ last.raised # "none"

\* the publication numbers handed to on_message are strictly increasing:
\* none is handed over twice
NoRedelivery ==
    \A i, j \in 1..Len(processed) : i < j => processed[i] < processed[j]

\* a message is handed to on_message only on a connection whose on_connect
\* has subscribed to TOPIC
ProcessedOnlySubscribed ==
    delivered' = delivered + 1 =>
        /\ link = "connected"
        /\ subscriptions = {TOPIC}
        /\ last_connect.rc = 0
        /\ last_connect.subscribe = <<TOPIC>>

\* C15: after every disconnect the session holds the subscription to
\* v3/+/devices/+/up again as soon as on_connect has run for the accepted
\* connection, no message is processed on a connection without it, and no
\* message processed before the disconnect is processed again afterwards.
C15_ResubscribeOnReconnect ==
    /\ [](link = "connected" => subscriptions = {TOPIC})
    /\ []NoRedelivery
    /\ [][ProcessedOnlySubscribed]_vars

\* publication 1 was processed, the connection ended, publication 2 found no
\* subscription, the second on_connect subscribed again and publication 3
\* was processed
C15_Witness ==
    /\ processed = <<1, 3>>
    /\ last_connect.n = 2
    /\ link = "connected"
    /\ subscriptions = {TOPIC}

\* the step is a call of on_connect
OnConnectStep == last_connect'.n = last_connect.n + 1

\* the call logged the reason code rc at error level
LoggedFailure(log, rc) ==
    \E i \in 1..Len(log) : log[i].level = "error" /\ log[i].rc = rc

\* C19: on_connect called with reason code 0 issues one subscribe, to
\* v3/+/devices/+/up; called with any other reason code it issues none, logs
\* the reason code and raises nothing: the process stays in the connection
\* loop, which is left to retry.
C19_SubscribeOnSuccessOnly ==
    [][OnConnectStep =>
          /\ last_connect'.raised = "none"
          /\ session' = "receiving"
          /\ IF last_connect'.rc = 0
             THEN /\ last_connect'.subscribe = <<TOPIC>>
                  /\ subscriptions' = {TOPIC}
             ELSE /\ last_connect'.subscribe = <<>>
                  /\ subscriptions' = subscriptions
                  /\ LoggedFailure(last_connect'.LOG, last_connect'.rc)
                  /\ link' = "disconnected"]_vars

\* a first connection was accepted and delivered a message; the second was
\* refused for bad credentials and on_connect returned without subscribing
C19_Witness ==
    /\ last_connect.n = 2
    /\ last_connect.rc = 134
    /\ last_connect.subscribe = <<>>
    /\ processed = <<1>>
    /\ session = "receiving"

====
